---- MODULE Spec2Model ----
(***************************************************************************)
(* Model of the chatbot tool server (src/server.py).                       *)
(*                                                                         *)
(* Two independent parts share this module:                                *)
(*   - search_file_by_name: os.walk over a directory tree, then the call   *)
(*     of get_close_matches (specification Spec);                          *)
(*   - the three CSV appenders add_log_to_journal, add_log_to_file and     *)
(*     add_reminder, and analyze_mood_trend (specification SinkSpec).      *)
(***************************************************************************)
EXTENDS Integers, Sequences, FiniteSets, TLC

\* ---------------------------------------------------------------- bounds
MaxDirs  == 3     \* directories of the tree, numbered 1..MaxDirs, 1 is root_dir
MaxFiles == 1     \* files of a small directory
MaxCalls == 2     \* calls of the appending handlers that can be in flight together

\* ------------------------------------------------------ program constants
n == 10           \* get_close_matches(..., n=10, ...): the k of the search

Dirs == 1 .. MaxDirs
Root == 1

\* A directory holds no file, MaxFiles files, or one more than n files.
FileCounts == {0, MaxFiles, n + 1}

\* ------------------------------------------------------------- operators
NoDup(s) == \A i, j \in 1 .. Len(s) : s[i] = s[j] => i = j

RECURSIVE SeqOfSet(_)
\* the members of a set of integers in increasing order
SeqOfSet(S) ==
    IF S = {} THEN <<>>
    ELSE LET m == CHOOSE x \in S : \A y \in S : x <= y
         IN  <<m>> \o SeqOfSet(S \ {m})

VARIABLES
    \* the file system the search walks (fixed during a call)
    rootKind,        \* "dir", "file" or "missing": what root_dir names
    parent,          \* parent[d]: the directory holding directory d (d > 1)
    fileCount,       \* fileCount[d]: regular files in directory d, named 1..fileCount[d]
    unreadable,      \* the directories whose listing fails (at most one)
    links,           \* the symbolic links to directories, <<at, to>>: one in
                     \* directory `at` that names directory `to` (at most one)
    \* search_file_by_name
    pc,              \* "idle", "walk", "match", "done"
    stack,           \* directories os.walk still has to list, next one first
    visited,         \* directories os.walk has tried to list, in order
    candidates,      \* list of (name, path) pairs, line 270
    matched_files,   \* line 269
    outcome,         \* "none", "returned", or the name of the exception raised
    cancelRequested, \* the host asked to cancel the running call
    \* the CSV files of the appending handlers, one per handler
    store,           \* store[k]: [exists, lines] of the file handler k appends to
    \* the calls of the appending handlers
    cpc,             \* cpc[c]: "idle", "opening", "opened", "headed", "written", "done"
    handler,         \* handler[c]: the handler call c runs
    file_exists,     \* file_exists[c]: what log_file.exists() answered
    row,             \* row[c]: the fields of the call's record
    entry,           \* entry[c]: <<date, mood>> of a journal call
    buf,             \* buf[c]: lines written to the open file and not yet flushed
    \* analyze_mood_trend
    moodPc,          \* "idle" or "done"
    moodArgs,        \* <<from_date, to_date>>
    moodOutcome,     \* "none", "returned", or the name of the exception raised
    moodResult       \* the mood counts reported, when the call returned

searchVars == <<pc, stack, visited, candidates, matched_files, outcome, cancelRequested>>
fsVars     == <<rootKind, parent, fileCount, unreadable, links>>
callVars   == <<cpc, handler, file_exists, row, entry, buf>>
moodVars   == <<moodPc, moodArgs, moodOutcome, moodResult>>
sinkVars   == <<store, callVars, moodVars>>
vars       == <<fsVars, searchVars, sinkVars>>

\* ----------------------------------------------------------- file system
\* scandir(d) succeeds: d is there, is a directory, and can be read
Listable(d) ==
    /\ d = Root => rootKind = "dir"
    /\ d \notin unreadable

\* the real subdirectories of d
Subdirs(d) == {c \in Dirs : c # Root /\ parent[c] = d}

\* os.path.join(dirpath, file): a file is named by its directory and its name
Path(d, file) == <<d, file>>

\* the (name, path) pairs the loop of lines 274-275 appends for one directory
FilesOf(d) == [i \in 1 .. fileCount[d] |-> <<i, Path(d, i)>>]

\* the dirs list os.walk builds for d: every entry that is a directory or a
\* symbolic link to one, as <<directory, is a symbolic link>>
DirEntries(d) ==
    {<<c, FALSE>> : c \in Subdirs(d)} \cup
    {<<l[2], TRUE>> : l \in {x \in links : x[1] = d}}

\* os.walk(..., followlinks=True): symbolic links are descended into as well
WalkIntoFollowingLinks(d) ==
    SeqOfSet({e[1] : e \in {x \in DirEntries(d) : ~x[2]}}) \o
    SeqOfSet({e[1] : e \in {x \in DirEntries(d) : x[2]}})

\* os.walk descends into the entries of dirs that are not symbolic links
\* (followlinks defaults to False), in listing order
WalkInto(d) == SeqOfSet({e[1] : e \in {x \in DirEntries(d) : ~x[2]}})

RECURSIVE IsAncestorOrSelf(_, _)
\* directory a is d or lies on the way from the root to d
IsAncestorOrSelf(a, d) ==
    \/ a = d
    \/ d # Root /\ IsAncestorOrSelf(a, parent[d])

\* every directory from the root down to d can be listed
RECURSIVE Reachable(_)
Reachable(d) ==
    /\ Listable(d)
    /\ d # Root => Reachable(parent[d])

\* ------------------------------------------------------------ CSV files
Calls    == 1 .. MaxCalls
Handlers == {"add_log_to_journal", "add_log_to_file", "add_reminder"}

Quote == "\""
Comma == ","

\* texts are sequences of characters; "x" stands for any character but the quote
Texts  == {<<"x">>, <<Quote, "x">>}
Dates  == {"2025-05-01", "2025-05-02"}
Moods  == {"Happy", "Sad"}
NoDate == "none"

\* datetime.datetime.now().strftime("%Y-%m-%d %H:%M:%S")
Timestamp == <<"2025-05-04 22:15:32">>

RECURSIVE DoubleQuotes(_)
\* text.replace('"', '""')
DoubleQuotes(text) ==
    IF text = <<>> THEN <<>>
    ELSE (IF Head(text) = Quote THEN <<Quote, Quote>> ELSE <<Head(text)>>)
         \o DoubleQuotes(Tail(text))

\* escape_log_field / escape_csv: double the quotes, wrap in quotes
escape_log_field(text) == <<Quote>> \o DoubleQuotes(text) \o <<Quote>>

RECURSIVE Join(_)
\* ",".join(fields)
Join(fields) ==
    IF fields = <<>> THEN <<>>
    ELSE IF Len(fields) = 1 THEN fields[1]
    ELSE fields[1] \o <<Comma>> \o Join(Tail(fields))

\* the headers list of each handler
headers(h) ==
    CASE h = "add_log_to_journal" -> << <<"Date">>, <<"Mood">>, <<"Log">> >>
      [] h = "add_log_to_file"    -> << <<"Timestamp">>, <<"Log">> >>
      [] h = "add_reminder"       -> << <<"Timestamp">>, <<"Title">>, <<"Message">> >>

NoFile == [exists |-> FALSE, lines |-> <<>>]

SinkInit ==
    /\ store = [h \in Handlers |-> NoFile]
    /\ cpc = [c \in Calls |-> "idle"]
    /\ handler = [c \in Calls |-> "add_log_to_journal"]
    /\ file_exists = [c \in Calls |-> FALSE]
    /\ row = [c \in Calls |-> <<>>]
    /\ entry = [c \in Calls |-> <<NoDate, NoDate>>]
    /\ buf = [c \in Calls |-> <<>>]
    /\ moodPc = "idle"
    /\ moodArgs = <<NoDate, NoDate>>
    /\ moodOutcome = "none"
    /\ moodResult = [m \in Moods |-> 0]

\* ---------------------------------------------------------------- search
TreeInit ==
    \/ /\ rootKind = "dir"
       /\ parent \in {p \in [Dirs \ {Root} -> Dirs] : \A d \in Dirs \ {Root} : p[d] < d}
       /\ fileCount \in [Dirs -> FileCounts]
       /\ unreadable \in {{}} \cup {{d} : d \in Dirs}
       /\ links \in {{}} \cup {{l} : l \in Dirs \X Dirs}
    \/ /\ rootKind \in {"file", "missing"}
       /\ parent = [d \in Dirs \ {Root} |-> Root]
       /\ fileCount = [d \in Dirs |-> 0]
       /\ unreadable = {}
       /\ links = {}

SearchInit ==
    /\ pc = "idle"
    /\ stack = <<>>
    /\ visited = <<>>
    /\ candidates = <<>>
    /\ matched_files = <<>>
    /\ outcome = "none"
    /\ cancelRequested = FALSE

Init == TreeInit /\ SearchInit /\ SinkInit

\* lines 267-273: the lists are created and os.walk(root_dir) starts
Start ==
    /\ pc = "idle"
    /\ pc' = "walk"
    /\ matched_files' = <<>>
    /\ candidates' = <<>>
    /\ stack' = <<Root>>
    /\ UNCHANGED <<visited, outcome, cancelRequested, fsVars, sinkVars>>

\* lines 273-275: os.walk lists the next directory; a listing that fails is
\* swallowed (onerror is None) and the directory is skipped with all below it
WalkStep ==
    /\ pc = "walk"
    /\ stack # <<>>
    /\ LET d == Head(stack) IN
       /\ visited' = Append(visited, d)
       /\ \/ /\ ~Listable(d)
             /\ stack' = Tail(stack)
             /\ UNCHANGED candidates
          \/ /\ Listable(d)
             /\ candidates' = candidates \o FilesOf(d)
             /\ stack' = WalkInto(d) \o Tail(stack)
    /\ UNCHANGED <<pc, matched_files, outcome, cancelRequested, fsVars, sinkVars>>

\* line 277: the walk is exhausted
WalkDone ==
    /\ pc = "walk"
    /\ stack = <<>>
    /\ pc' = "match"
    /\ UNCHANGED <<stack, visited, candidates, matched_files, outcome, cancelRequested, fsVars, sinkVars>>

\* lines 280-281: get_close_matches is a name the module never binds (difflib
\* is not imported), so the call raises NameError; lines 283-295 never run
CloseMatches ==
    /\ pc = "match"
    /\ pc' = "done"
    /\ outcome' = "NameError"
    /\ UNCHANGED <<stack, visited, candidates, matched_files, cancelRequested, fsVars, sinkVars>>

\* the host cancels the call while it runs; the handler has no await and
\* never looks at the request
RequestCancel ==
    /\ pc = "walk"
    /\ ~cancelRequested
    /\ cancelRequested' = TRUE
    /\ UNCHANGED <<pc, stack, visited, candidates, matched_files, outcome, fsVars, sinkVars>>

Next ==
    \/ Start
    \/ WalkStep
    \/ WalkDone
    \/ CloseMatches
    \/ RequestCancel

Spec == Init /\ [][Next]_vars

\* the handler is straight-line synchronous code: once called it keeps running
FairSpec == Spec /\ WF_vars(Start \/ WalkStep \/ WalkDone \/ CloseMatches)

\* ------------------------------------------------- appending handlers
\* the part the three handlers share, up to the await of aiofiles.open:
\* log_file.exists() is read, the row is built (lines 73-83, 184-198, 233-244)
Begin(c, h, fields) ==
    /\ cpc[c] = "idle"
    /\ cpc' = [cpc EXCEPT ![c] = "opening"]
    /\ handler' = [handler EXCEPT ![c] = h]
    /\ file_exists' = [file_exists EXCEPT ![c] = store[h].exists]
    /\ row' = [row EXCEPT ![c] = fields]
    /\ UNCHANGED <<store, buf, moodVars, fsVars, searchVars>>

\* lines 67-83
add_log_to_journal(c, date, mood, log) ==
    /\ Begin(c, "add_log_to_journal", << <<date>>, <<mood>>, escape_log_field(log) >>)
    /\ entry' = [entry EXCEPT ![c] = <<date, mood>>]

\* lines 179-198
add_log_to_file(c, log) ==
    /\ Begin(c, "add_log_to_file", << Timestamp, escape_log_field(log) >>)
    /\ UNCHANGED entry

\* lines 225-244
add_reminder(c, title, message) ==
    /\ Begin(c, "add_reminder",
             << Timestamp, escape_log_field(title), escape_log_field(message) >>)
    /\ UNCHANGED entry

\* aiofiles.open(log_file, mode="a") completes: the file is there from now on
Open(c) ==
    /\ cpc[c] = "opening"
    /\ cpc' = [cpc EXCEPT ![c] = "opened"]
    /\ store' = [store EXCEPT ![handler[c]].exists = TRUE]
    /\ UNCHANGED <<handler, file_exists, row, entry, buf, moodVars, fsVars, searchVars>>

\* if not file_exists: await f.write(",".join(headers) + "\n")
WriteHeader(c) ==
    /\ cpc[c] = "opened"
    /\ cpc' = [cpc EXCEPT ![c] = "headed"]
    /\ \/ /\ ~file_exists[c]
          /\ buf' = [buf EXCEPT ![c] = Append(@, Join(headers(handler[c])))]
       \/ /\ file_exists[c]
          /\ UNCHANGED buf
    /\ UNCHANGED <<store, handler, file_exists, row, entry, moodVars, fsVars, searchVars>>

\* await f.write(",".join(row) + "\n")
WriteRow(c) ==
    /\ cpc[c] = "headed"
    /\ cpc' = [cpc EXCEPT ![c] = "written"]
    /\ buf' = [buf EXCEPT ![c] = Append(@, Join(row[c]))]
    /\ UNCHANGED <<store, handler, file_exists, row, entry, moodVars, fsVars, searchVars>>

\* the async with block is left: the file is closed, and the text the writes
\* left in the file object's buffer reaches the end of the file (append
\* mode). add_reminder then shows its toast (lines 250-251), which changes
\* no state
Close(c) ==
    /\ cpc[c] = "written"
    /\ cpc' = [cpc EXCEPT ![c] = "done"]
    /\ store' = [store EXCEPT ![handler[c]].lines = @ \o buf[c]]
    /\ buf' = [buf EXCEPT ![c] = <<>>]
    /\ UNCHANGED <<handler, file_exists, row, entry, moodVars, fsVars, searchVars>>

\* lines 110-146. Line 13 (import datetime) rebinds the name that line 4 bound
\* to the class, so datetime.strptime of line 113 raises AttributeError and
\* nothing below it runs
analyze_mood_trend(from_date, to_date) ==
    /\ moodPc = "idle"
    /\ moodPc' = "done"
    /\ moodArgs' = <<from_date, to_date>>
    /\ moodOutcome' = "AttributeError"
    /\ UNCHANGED <<moodResult, store, callVars, fsVars, searchVars>>

SinkNext ==
    \/ \E c \in Calls, date \in Dates, mood \in Moods, log \in Texts :
          add_log_to_journal(c, date, mood, log)
    \/ \E c \in Calls, log \in Texts : add_log_to_file(c, log)
    \/ \E c \in Calls, title \in {<<"x">>}, message \in Texts :
          add_reminder(c, title, message)
    \/ \E c \in Calls : Open(c)
    \/ \E c \in Calls : WriteHeader(c)
    \/ \E c \in Calls : WriteRow(c)
    \/ \E c \in Calls : Close(c)
    \/ \E from_date \in Dates, to_date \in Dates : analyze_mood_trend(from_date, to_date)

\* the tool server with no search running
NoSearch ==
    /\ rootKind = "dir"
    /\ parent = [d \in Dirs \ {Root} |-> Root]
    /\ fileCount = [d \in Dirs |-> 0]
    /\ unreadable = {}
    /\ links = {}
    /\ SearchInit

SinkStart == NoSearch /\ SinkInit

SinkSpec == SinkStart /\ [][SinkNext]_vars


\* ------------------------------------------------------- claims: search
Paths(s) == [i \in 1 .. Len(s) |-> s[i][2]]

ErrorKinds == {"InvalidRoot", "InvalidK", "InvalidCutoff", "Cancelled"}

\* C1: the result never holds more than n entries while it is built, and the
\* call returns a list of at most n paths
C1_BoundedResult ==
    /\ Len(matched_files) <= n
    /\ pc = "done" => outcome = "returned" /\ Len(matched_files) <= n

\* the list of candidates, which the search builds before any matching,
\* outgrows n
ManyCandidates == Len(candidates) > n

\* C2: the call returns a list in which no full path occurs twice, also when
\* directories hold files of the same name
C2_NoDuplicatePath ==
    pc = "done" =>
        /\ outcome = "returned"
        /\ NoDup(matched_files)

\* C3: the call returns its paths best first, and paths of files with the same
\* name (hence the same similarity) in the order the walk found them
C3_FirstSeenWins ==
    pc = "done" =>
        /\ outcome = "returned"
        /\ \A i, j \in 1 .. Len(matched_files) :
              \A a, b \in 1 .. Len(candidates) :
                 /\ candidates[a][2] = matched_files[i]
                 /\ candidates[b][2] = matched_files[j]
                 /\ candidates[a][1] = candidates[b][1]
                 /\ a < b
                 => i < j

\* C4: a call ends with a returned list or with one of the four error kinds;
\* on a root directory with no file to match it returns the empty list
C4_ReturnsOrExplicitError ==
    pc = "done" =>
        /\ outcome \in {"returned"} \cup ErrorKinds
        /\ rootKind = "dir" /\ candidates = <<>> =>
              outcome = "returned" /\ matched_files = <<>>

\* C5: when root_dir is missing or no directory, nothing is listed and the
\* call ends with InvalidRoot
C5_InvalidRoot ==
    rootKind # "dir" =>
        /\ visited = <<>>
        /\ pc = "done" => outcome = "InvalidRoot"

\* every file of every directory that can be reached through listable
\* directories is among the candidates once the walk is over
WalkCoversReadable ==
    pc \in {"match", "done"} =>
        \A d \in Dirs : Reachable(d) =>
            \A i \in 1 .. fileCount[d] :
                \E k \in 1 .. Len(candidates) : candidates[k] = <<i, Path(d, i)>>

\* C6: a directory that cannot be listed costs only its subtree: the call
\* returns, and the files of the readable directories are candidates
C6_FaultIsolation ==
    pc = "done" /\ unreadable # {} /\ Root \notin unreadable =>
        /\ outcome = "returned"
        /\ WalkCoversReadable

\* no directory is listed or waiting to be listed twice, no file was met
\* twice, and the listings made and still to make are at most the directories
WalkOnce ==
    /\ NoDup(visited \o stack)
    /\ NoDup(Paths(candidates))
    /\ Len(visited) + Len(stack) <= MaxDirs

\* a walk that is over, on a tree where a listed directory with files holds a
\* symbolic link back to itself or to a directory above it
C7_Witness ==
    /\ pc = "done"
    /\ \E l \in links :
          /\ IsAncestorOrSelf(l[2], l[1])
          /\ \E k \in 1 .. Len(visited) : visited[k] = l[1]
          /\ \E k \in 1 .. Len(candidates) : candidates[k][2][1] = l[1]

\* C7: on every tree, symbolic links that close a cycle included, the walk
\* lists no directory twice, meets every file once, and comes to its end
C7_CycleSafe == []WalkOnce /\ <>(pc = "done")

\* C9: a call that was asked to cancel while it walked ends with Cancelled
C9_Cancelled ==
    pc = "done" /\ cancelRequested => outcome = "Cancelled"

\* ------------------------------------------ claims: appending handlers
\* no call of an appending handler is under way
Quiescent == \A c \in Calls : cpc[c] \in {"idle", "done"}

\* the calls of handler h that ran to their end
Completed(h) == {c \in Calls : cpc[c] = "done" /\ handler[c] = h}

\* C8: once the calls are over, each file written to is its header line
\* followed by one line per completed call and by nothing else
C8_OneHeaderThenRows ==
    Quiescent =>
        \A h \in Handlers :
            LET lines == store[h].lines IN
            Completed(h) # {} =>
                /\ Len(lines) = 1 + Cardinality(Completed(h))
                /\ lines[1] = Join(headers(h))
                /\ \A i \in 2 .. Len(lines) :
                      /\ lines[i] # Join(headers(h))
                      /\ \E c \in Completed(h) : lines[i] = Join(row[c])

\* two calls that both found the file missing have both written the header
TwoHeaders ==
    \E h \in Handlers :
        /\ Len(store[h].lines) = 4
        /\ store[h].lines[1] = Join(headers(h))
        /\ store[h].lines[3] = Join(headers(h))

\* datetime.strptime(date, "%Y-%m-%d"), as the day of May 2025
Day(date) == CASE date = "2025-05-01" -> 1 [] date = "2025-05-02" -> 2

\* the number of stored journal entries of mood m dated from_date..to_date
StoredInRange(m, from_date, to_date) ==
    Cardinality({c \in Completed("add_log_to_journal") :
                    /\ entry[c][2] = m
                    /\ Day(from_date) <= Day(entry[c][1])
                    /\ Day(entry[c][1]) <= Day(to_date)})

\* C10: a call of analyze_mood_trend returns, for each mood, the number of
\* stored journal entries dated within from_date..to_date, bounds included
C10_MoodCounts ==
    [][moodPc = "idle" /\ moodPc' = "done" =>
          /\ moodOutcome' = "returned"
          /\ moodResult' = [m \in Moods |->
                               StoredInRange(m, moodArgs'[1], moodArgs'[2])]]_vars

====
